---- MODULE Spec2Model ----
(***************************************************************************)
(* Chunked scan/merge engine of dynamics_multicore.py.                     *)
(*                                                                         *)
(* A file is a sequence of bytes; "NL" is the line terminator b"\n" that   *)
(* readline() stops after, every other byte is content.  A byte range is   *)
(* the pair <<start, length>> that get_file_chunks returns.  Each group of *)
(* workers is checked under a specification of its own (SpecPlan, ...):    *)
(* the variables a specification does not use keep their initial value.    *)
(***************************************************************************)
EXTENDS Integers, Sequences, FiniteSets, TLC

VARIABLES file, rows, n_chunks, offsets, pc, results, out, params

vars == <<file, rows, n_chunks, offsets, pc, results, out, params>>

(* ------------------------------ bounds ------------------------------- *)

\* longest file, in bytes, of SpecPlan
MaxBytes == 7
\* largest chunk count of SpecPlan
MaxChunks == 4
\* most data rows of a delimited file (the header line comes on top)
MaxRows == 3
\* widest line of a delimited file, in bytes, terminator included
MaxWidth == 3
\* largest chunk count of the specifications that parse rows
MaxRowChunks == 4
\* most data rows of a file of SpecAgg
MaxAggRows == 2
\* most ranges of a split of SpecAgg
MaxAggChunks == 3
\* most rows of a lookup table of SpecMerge
MaxLookupRows == 2
\* most rows of a dataset of SpecSample
MaxSampleRows == 200
\* most ranges of a plan of SpecSample
MaxSampleChunks == 3

(* ------------------------- program constants -------------------------- *)

\* Title_Sentiment is in tenths: the fixed bin edges -0.1 and 0.1
SentLow == -1
SentHigh == 1
\* Opportunity_Score is in hundredths: the fixed bin edges 0.02 and 0.1
OppLow == 2
OppHigh == 10

(* ------------------------------ helpers ------------------------------ *)

Bytes == {"NL", "x"}

Files == UNION {[1..k -> Bytes] : k \in 0..MaxBytes}

Min(a, b) == IF a <= b THEN a ELSE b

RECURSIVE SumLen(_)
SumLen(s) == IF s = <<>> THEN 0 ELSE s[1][2] + SumLen(Tail(s))

RECURSIVE Flatten(_)
Flatten(ss) == IF ss = <<>> THEN <<>> ELSE ss[1] \o Flatten(Tail(ss))

(* --------------------------- get_file_chunks -------------------------- *)

\* f.seek(pos); f.readline(); f.tell(): the offset just after the first
\* "NL" at or after pos; the end of the file when there is none; pos itself
\* when pos is at or past the end of the file (a seek past the end is legal
\* and readline() then reads nothing).
ReadlineTell(f, pos) ==
  IF pos >= Len(f) THEN pos
  ELSE LET nls == {j \in (pos + 1)..Len(f) : f[j] = "NL"}
       IN IF nls = {} THEN Len(f)
          ELSE CHOOSE j \in nls : \A k \in nls : j <= k

\* The loop of get_file_chunks from iteration i on.
RECURSIVE ChunkLoop(_, _, _, _, _)
ChunkLoop(f, n, i, current_pos, acc) ==
  LET file_size  == Len(f)
      chunk_size == file_size \div n
      start      == current_pos
  IN IF i = n - 1
     THEN Append(acc, <<start, file_size - start>>)
     ELSE LET end == ReadlineTell(f, start + chunk_size)
          IN ChunkLoop(f, n, i + 1, end, Append(acc, <<start, end - start>>))

\* The same loop without the readline(): every boundary is the nominal one.
RECURSIVE ChunkLoopNoAlign(_, _, _, _, _)
ChunkLoopNoAlign(f, n, i, current_pos, acc) ==
  LET file_size  == Len(f)
      chunk_size == file_size \div n
      start      == current_pos
  IN IF i = n - 1
     THEN Append(acc, <<start, file_size - start>>)
     ELSE LET end == start + chunk_size
          IN ChunkLoopNoAlign(f, n, i + 1, end, Append(acc, <<start, end - start>>))

get_file_chunks_noalign(file_path, n) ==
  ChunkLoopNoAlign(file_path, n, 0, 0, <<>>)

get_file_chunks(file_path, n) ==
  ChunkLoop(file_path, n, 0, 0, <<>>)

(* ---------------------------- read_csv_chunk -------------------------- *)

\* f.seek(start_byte); f.read(num_bytes) on a buffered binary reader:
\* a length below -1 raises ValueError, -1 reads to the end of the file,
\* and a read at or past the end of the file returns b"".
RawRead(f, start_byte, num_bytes) ==
  IF num_bytes < -1 THEN [error |-> "ValueError", data |-> <<>>]
  ELSE LET last == IF num_bytes = -1 THEN Len(f)
                   ELSE Min(Len(f), start_byte + num_bytes)
       IN [error |-> "",
           data  |-> IF start_byte >= Len(f) THEN <<>>
                     ELSE SubSeq(f, start_byte + 1, last)]

(* ============================== SpecPlan ============================== *)
(* get_file_chunks on every file of at most MaxBytes bytes, then the raw   *)
(* read of every planned range, in plan order.                            *)

InitPlan ==
  /\ file \in Files
  /\ n_chunks \in 1..MaxChunks
  /\ rows = <<>>
  /\ offsets = <<>>
  /\ pc = "plan"
  /\ results = <<>>
  /\ out = <<>>
  /\ params = <<>>

GetFileChunks ==
  /\ pc = "plan"
  /\ offsets' = get_file_chunks(file, n_chunks)
  /\ pc' = "work"
  /\ UNCHANGED <<file, rows, n_chunks, results, out, params>>

ReadRange ==
  /\ pc = "work"
  /\ Len(results) < Len(offsets)
  /\ LET r == offsets[Len(results) + 1]
     IN results' = Append(results, RawRead(file, r[1], r[2]))
  /\ UNCHANGED <<file, rows, n_chunks, offsets, pc, out, params>>

NextPlan == GetFileChunks \/ ReadRange

SpecPlan == InitPlan /\ [][NextPlan]_vars

Planned == pc = "work"

AllRead == pc = "work" /\ Len(results) = Len(offsets)

AfterNL(f, s) == s >= 1 /\ s <= Len(f) /\ f[s] = "NL"

\* C1: for every file and every chunk count n >= 1 the plan holds exactly n
\* ranges that partition the file: first start 0, each next start equal to
\* the previous start + length, every length >= 0, every start + length
\* <= file size, and the lengths summing to the file size.
C1_Partition ==
  Planned =>
    /\ Len(offsets) = n_chunks
    /\ offsets[1][1] = 0
    /\ \A i \in 1..(Len(offsets) - 1) :
         offsets[i + 1][1] = offsets[i][1] + offsets[i][2]
    /\ \A i \in 1..Len(offsets) :
         /\ offsets[i][2] >= 0
         /\ offsets[i][1] + offsets[i][2] <= Len(file)
    /\ SumLen(offsets) = Len(file)

\* C2 as stated: every range start other than the first is a position
\* immediately after a line terminator byte of the file.
C2_EveryStartAfterNL ==
  Planned =>
    \A i \in 2..Len(offsets) :
      offsets[i][1] # 0 => AfterNL(file, offsets[i][1])

\* C2 as amended: every range start other than the first that lies before
\* the end of the file is immediately after a line terminator byte, so no
\* line is split between two ranges; the other starts are at or past the
\* end of the file.
C2_InnerStartAfterNL ==
  Planned =>
    \A i \in 2..Len(offsets) :
      offsets[i][1] < Len(file) => AfterNL(file, offsets[i][1])

\* a plan with a boundary inside the file, and one with a boundary at the
\* end of a file whose last line has no terminator
C2_Witness ==
  /\ Planned
  /\ \E i \in 2..Len(offsets) : offsets[i][1] > 0 /\ offsets[i][1] < Len(file)
  /\ \E i \in 2..Len(offsets) :
       offsets[i][1] = Len(file) /\ file[Len(file)] # "NL"

\* C3: the raw read of every planned range succeeds, and the byte strings
\* read, concatenated in plan order, are exactly the file.
C3_ReadsRebuildFile ==
  AllRead =>
    /\ \A i \in 1..Len(results) : results[i].error = ""
    /\ Flatten([i \in 1..Len(results) |-> results[i].data]) = file

(* ======================= delimited files and rows ====================== *)
(* A delimited file is its bytes (variable file) and what its lines say:   *)
(* line 1 is the header and line k + 1 is the data row rows[k], a record   *)
(* from column name to value.  Every line of a file of width w is w - 1    *)
(* content bytes and the terminator.                                       *)

\* the sequence s, k times over
Repeat(s, k) ==
  IF k <= 0 THEN <<>> ELSE [i \in 1..(k * Len(s)) |-> s[((i - 1) % Len(s)) + 1]]

LineBytes(w) == Repeat(<<"x">>, w - 1) \o <<"NL">>

\* the bytes of a file of a header line and k data rows, w bytes a line
FileOf(w, k) == Repeat(LineBytes(w), k + 1)

CountNL(s) == Cardinality({j \in 1..Len(s) : s[j] = "NL"})

\* every sequence of at most k elements of S
SeqUpTo(S, k) == UNION {[1..m -> S] : m \in 0..k}

\* maximum of a non-empty set of integers
SetMax(S) == CHOOSE m \in S : \A x \in S : x <= m

\* usecols: the columns of row that use_cols names ({} models None: all)
Project(row, use_cols) ==
  IF use_cols = {} THEN row ELSE [c \in use_cols |-> row[c]]

\* a cell with no value (NaN) is <<>>, a cell with the value x is <<x>>
NaN == <<>>

Val(x) == <<x>>

\* read_csv_chunk: the bytes of the range, parsed.  error is "ValueError"
\* (f.read of a length below -1), "EmptyDataError" (pandas on no bytes at
\* all) or ""; df is then the sequence of the data rows of the lines the
\* range holds.  A range that starts at 0 gives its first line to pandas as
\* the header; any other range is all data.  A line the range holds only a
\* part of is no row of the file: it is left out of df and counted in torn.
\* content holds the data rows of the file.
read_csv_chunk(file_path, content, start_byte, num_bytes, use_cols) ==
  LET raw == RawRead(file_path, start_byte, num_bytes)
      data == raw.data
  IN IF raw.error # "" THEN [error |-> raw.error, df |-> <<>>, torn |-> 0]
     ELSE IF data = <<>> THEN [error |-> "EmptyDataError", df |-> <<>>, torn |-> 0]
     ELSE
       LET first   == 1 + CountNL(SubSeq(file_path, 1, start_byte))
           nlines  == CountNL(data) + (IF data[Len(data)] = "NL" THEN 0 ELSE 1)
           tornHead == start_byte > 0 /\ file_path[start_byte] # "NL"
           tornTail == /\ data[Len(data)] # "NL"
                       /\ start_byte + Len(data) < Len(file_path)
           \* the lines of the range that are whole lines of the file
           whole == {j \in 1..nlines :
                       /\ ~(j = 1 /\ tornHead)
                       /\ ~(j = nlines /\ tornTail)}
           \* the data rows among them: line 1 of the file is the header
           datal == {j \in whole : first + j - 1 >= 2
                                   /\ first + j - 2 <= Len(content)}
           \* the m-th of them, in the order of the file
           Nth(m) == CHOOSE j \in datal : Cardinality({h \in datal : h < j}) = m - 1
       IN [error |-> "",
           df |-> [m \in 1..Cardinality(datal) |->
                     Project(content[first + Nth(m) - 2], use_cols)],
           torn |-> nlines - Cardinality(whole)]

(* ============================= SpecPhase1 ============================= *)
(* Phase 1: plan, process_phase1_range on every range in any order, then  *)
(* the reduction of the partial results.                                  *)

KeyOf(r) == <<r.IDLink, r.Platform>>

\* process_phase1_range: (None, None) is "None"; otherwise v holds the
\* rows with TimeSlice = 1 renamed to Initial_Velocity, in order, and m
\* the maximum Popularity of every (IDLink, Platform) of the chunk.
process_phase1_range(file_path, content, start_byte, num_bytes) ==
  LET calc_cols == {"IDLink", "Platform", "TimeSlice", "Popularity"}
      rd == read_csv_chunk(file_path, content, start_byte, num_bytes, calc_cols)
      chunk == rd.df
  IN IF rd.error = "ValueError" THEN [status |-> "ValueError"]
     ELSE IF rd.error = "EmptyDataError" THEN [status |-> "None"]
     ELSE IF chunk = <<>> THEN [status |-> "None"]
     ELSE
       LET IsFirstSlice(r) == r.TimeSlice = 1
           sel == SelectSeq(chunk, IsFirstSlice)
           keys == {KeyOf(chunk[j]) : j \in 1..Len(chunk)}
       IN [status |-> "ok",
           v |-> [j \in 1..Len(sel) |->
                    [IDLink |-> sel[j].IDLink, Platform |-> sel[j].Platform,
                     Initial_Velocity |-> sel[j].Popularity]],
           m |-> [k \in keys |->
                    SetMax({chunk[j].Popularity :
                              j \in {i \in 1..Len(chunk) : KeyOf(chunk[i]) = k}})]]

\* The reduction of Phase 1: "PhaseFailed" when a worker raised; otherwise,
\* per key, Final_Score is the maximum of the partial maxima and
\* Initial_Velocity the first TimeSlice = 1 value in plan order ("NaN" when
\* the key has none).
ReducePhase1(res) ==
  IF \E i \in DOMAIN res : res[i].status = "ValueError"
  THEN [status |-> "PhaseFailed"]
  ELSE
    LET some == {i \in DOMAIN res : res[i].status = "ok"}
        keys == UNION {DOMAIN res[i].m : i \in some}
        RECURSIVE VAll(_)
        VAll(i) == IF i > Len(res) THEN <<>>
                   ELSE (IF i \in some THEN res[i].v ELSE <<>>) \o VAll(i + 1)
        v_all == VAll(1)
        FirstV(k) ==
          LET hits == {j \in 1..Len(v_all) : KeyOf(v_all[j]) = k}
          IN IF hits = {} THEN NaN
             ELSE Val(v_all[CHOOSE j \in hits : \A h \in hits : j <= h].Initial_Velocity)
    IN [status |-> "ok",
        table |-> [k \in keys |->
          [Initial_Velocity |-> FirstV(k),
           Final_Score |-> SetMax({res[i].m[k] :
                                     i \in {h \in some : k \in DOMAIN res[h].m}})]]]

\* The single pass over all the rows of the file, with no chunks.
SinglePassPhase1(content) ==
  LET keys == {KeyOf(content[j]) : j \in 1..Len(content)}
      FirstV(k) ==
        LET hits == {j \in 1..Len(content) :
                       KeyOf(content[j]) = k /\ content[j].TimeSlice = 1}
        IN IF hits = {} THEN NaN
           ELSE Val(content[CHOOSE j \in hits : \A h \in hits : j <= h].Popularity)
  IN [k \in keys |->
        [Initial_Velocity |-> FirstV(k),
         Final_Score |-> SetMax({content[j].Popularity :
                                   j \in {i \in 1..Len(content) : KeyOf(content[i]) = k}})]]

Phase1Rows ==
  [IDLink : {1, 2}, Platform : {"Facebook"}, TimeSlice : {1, 2}, Popularity : {0, 3}]

InitPhase1 ==
  /\ rows \in SeqUpTo(Phase1Rows, MaxRows)
  /\ \E w \in 2..MaxWidth : file = FileOf(w, Len(rows))
  /\ n_chunks \in 1..MaxRowChunks
  /\ offsets = <<>>
  /\ pc = "plan"
  /\ results = <<>>
  /\ out = <<>>
  /\ params = <<>>

Pending == {i \in 1..Len(offsets) : i \notin DOMAIN results}

Phase1Range(i) ==
  /\ pc = "work"
  /\ i \in Pending
  /\ results' = results @@
       (i :> process_phase1_range(file, rows, offsets[i][1], offsets[i][2]))
  /\ UNCHANGED <<file, rows, n_chunks, offsets, pc, out, params>>

Phase1Reduce ==
  /\ pc = "work"
  /\ Pending = {}
  /\ out' = ReducePhase1(results)
  /\ pc' = "done"
  /\ UNCHANGED <<file, rows, n_chunks, offsets, results, params>>

NextPhase1 ==
  \/ GetFileChunks
  \/ \E i \in 1..MaxRowChunks : Phase1Range(i)
  \/ Phase1Reduce

SpecPhase1 == InitPhase1 /\ [][NextPhase1]_vars

\* C4: for any rows and any chunk count, process_phase1_range on every
\* planned range followed by the reduction gives, for every key, the
\* Final_Score and the Initial_Velocity of the single pass over the file.
C4_ChunkedEqualsSinglePass ==
  pc = "done" => (out.status = "ok" /\ out.table = SinglePassPhase1(rows))

\* Auxiliary: in the runs in which no worker raised, the chunked run does
\* give the single-pass table.
C4_WhenNoWorkerRaised ==
  (pc = "done" /\ out.status = "ok") => out.table = SinglePassPhase1(rows)

(* ============================== SpecAgg =============================== *)
(* The grouped aggregation workers, each on every range of an arbitrary   *)
(* line-aligned split of the file, then the sum of the partial sums and   *)
(* counts.  Every cell of a row is Val(x) or NaN.                         *)

\* sum of the cells of column col of df that hold a value
RECURSIVE SumCells(_, _)
SumCells(df, col) ==
  IF df = <<>> THEN 0
  ELSE IF Len(df) = 1 THEN (IF df[1][col] = NaN THEN 0 ELSE df[1][col][1])
  ELSE LET half == Len(df) \div 2
       IN SumCells(SubSeq(df, 1, half), col)
          + SumCells(SubSeq(df, half + 1, Len(df)), col)

\* number of the cells of column col of df that hold a value
CountCells(df, col) == Cardinality({j \in 1..Len(df) : df[j][col] # NaN})

\* df.groupby(keys, observed=False)[cols].agg(['sum', 'count']): a row with
\* NaN in a key column is in no group
GroupAgg(df, keys, cols) ==
  LET KeyAt(r) == [i \in 1..Len(keys) |-> r[keys[i]]]
      HasKey(r) == \A i \in 1..Len(keys) : r[keys[i]] # NaN
      groups == {KeyAt(df[j]) : j \in {i \in 1..Len(df) : HasKey(df[i])}}
      In(g) == SelectSeq(df, LAMBDA r : HasKey(r) /\ KeyAt(r) = g)
  IN [g \in groups |->
        [c \in cols |-> [sum |-> SumCells(In(g), c), count |-> CountCells(In(g), c)]]]

\* pd.cut(x, bins=[-inf, low, high, inf], labels): right-closed intervals
cut(x, low, high, labels) ==
  IF x = NaN THEN NaN
  ELSE IF x[1] <= low THEN Val(labels[1])
  ELSE IF x[1] <= high THEN Val(labels[2])
  ELSE Val(labels[3])

metric_cols == {"Popularity", "Initial_Velocity", "Stickiness_Index"}

\* the timestamps pd.to_datetime parses, with their hour and day name
ParsedDates ==
  ("2015-11-02 09:15:00" :> [hour |-> 9, day_name |-> "Monday"])

\* pd.to_datetime(cell, errors='coerce')
to_datetime(cell) ==
  IF cell = NaN THEN NaN
  ELSE IF cell[1] \in DOMAIN ParsedDates THEN Val(ParsedDates[cell[1]])
  ELSE NaN

\* hour_of_day, day_of_week and Opportunity_Bin of a row with a parsed date
ContextColumns(r) ==
  [hour_of_day |-> IF r.PublishDate = NaN THEN NaN ELSE Val(r.PublishDate[1].hour),
   day_of_week |-> IF r.PublishDate = NaN THEN NaN ELSE Val(r.PublishDate[1].day_name),
   Opportunity_Bin |-> cut(r.Opportunity_Score, OppLow, OppHigh,
                           <<"Red Ocean (High Comp)", "Average", "Blue Ocean (Low Comp)">>)]
  @@ r

\* the four aggregations of process_context_aggregation over the rows df
ContextAggs(df) ==
  [agg_hourly |-> GroupAgg(df, <<"Platform", "hour_of_day">>, metric_cols),
   agg_weekly |-> GroupAgg(df, <<"Platform", "day_of_week">>, metric_cols),
   agg_source |-> GroupAgg(df, <<"Platform", "Source_Tier">>, metric_cols),
   agg_opp    |-> GroupAgg(df, <<"Platform", "Opportunity_Bin">>, metric_cols)]

process_context_aggregation(file_path, content, start_byte, num_bytes) ==
  LET cols_to_use == {"Platform", "PublishDate", "Source_Tier", "Opportunity_Score",
                      "Popularity", "Initial_Velocity", "Stickiness_Index"}
      rd == read_csv_chunk(file_path, content, start_byte, num_bytes, cols_to_use)
      chunk == rd.df
  IN IF rd.error = "ValueError" THEN [status |-> "ValueError"]
     ELSE IF rd.error = "EmptyDataError" THEN [status |-> "None"]
     ELSE IF chunk = <<>> THEN [status |-> "None"]
     ELSE
       LET dated == [j \in 1..Len(chunk) |->
                       [chunk[j] EXCEPT !.PublishDate = to_datetime(@)]]
           kept  == SelectSeq(dated, LAMBDA r : r.PublishDate # NaN)
           full  == [j \in 1..Len(kept) |-> ContextColumns(kept[j])]
       IN [status |-> "ok", aggs |-> ContextAggs(full)]

\* str.replace('TS', '') on the strings a TimeSlice cell can hold
StripTS == ("TS1" :> "1") @@ ("TS2" :> "2") @@ ("1" :> "1") @@ ("soon" :> "soon")

\* pd.to_numeric(errors='coerce') on those strings
ToNumeric == ("1" :> 1) @@ ("2" :> 2)

\* the TimeSlice clean-up of the lifecycle workers, then the sum and count
\* of Popularity by (key column, TimeSlice)
Lifecycle(chunk, keycol) ==
  LET IsNumeric(c) == c # NaN /\ c[1] \in DOMAIN ToNumeric
      is_object == \E j \in 1..Len(chunk) : ~IsNumeric(chunk[j].TimeSlice)
      Strip(c) == IF c = NaN THEN Val("nan")
                  ELSE IF c[1] \in DOMAIN StripTS THEN Val(StripTS[c[1]]) ELSE c
      Clean(c) == LET t == IF is_object THEN Strip(c) ELSE c
                  IN IF IsNumeric(t) THEN Val(ToNumeric[t[1]]) ELSE NaN
      cleaned == [j \in 1..Len(chunk) |-> [chunk[j] EXCEPT !.TimeSlice = Clean(@)]]
      kept == SelectSeq(cleaned, LAMBDA r : r.TimeSlice # NaN /\ r.Popularity # NaN)
  IN [agg |-> GroupAgg(kept, <<keycol, "TimeSlice">>, {"Popularity"})]

process_topic_lifecycle(file_path, content, start_byte, num_bytes) ==
  LET cols_to_use == {"Topic", "TimeSlice", "Popularity"}
      rd == read_csv_chunk(file_path, content, start_byte, num_bytes, cols_to_use)
  IN IF rd.error = "ValueError" THEN [status |-> "ValueError"]
     ELSE IF rd.error = "EmptyDataError" THEN [status |-> "None"]
     ELSE IF rd.df = <<>> THEN [status |-> "None"]
     ELSE [status |-> "ok", aggs |-> Lifecycle(rd.df, "Topic")]

process_platform_lifecycle(file_path, content, start_byte, num_bytes) ==
  LET cols_to_use == {"Platform", "TimeSlice", "Popularity"}
      rd == read_csv_chunk(file_path, content, start_byte, num_bytes, cols_to_use)
  IN IF rd.error = "ValueError" THEN [status |-> "ValueError"]
     ELSE IF rd.error = "EmptyDataError" THEN [status |-> "None"]
     ELSE IF rd.df = <<>> THEN [status |-> "None"]
     ELSE [status |-> "ok", aggs |-> Lifecycle(rd.df, "Platform")]

\* Sentiment_Bin and Complexity_Bin of a row, then the two aggregations
ContentAggs(chunk, comp_low, comp_high) ==
  LET binned == [j \in 1..Len(chunk) |->
        [Sentiment_Bin |-> cut(chunk[j].Title_Sentiment, SentLow, SentHigh,
                               <<"Negative", "Neutral", "Positive">>),
         Complexity_Bin |-> cut(chunk[j].Title_Complexity, comp_low, comp_high,
                                <<"Simple", "Standard", "Complex">>)] @@ chunk[j]]
  IN [sent_agg |-> GroupAgg(binned, <<"Platform", "Sentiment_Bin">>, metric_cols),
      comp_agg |-> GroupAgg(binned, <<"Platform", "Complexity_Bin">>, metric_cols)]

\* process_content_aggregation; thr is <<comp_low, comp_high>>, or <<>> when
\* a threshold is NaN.  pd.cut raises ValueError on bin edges that are NaN,
\* equal or decreasing.
process_content_aggregation(file_path, content, start_byte, num_bytes, thr) ==
  LET cols_to_use == {"Platform", "Title_Sentiment", "Title_Complexity",
                      "Popularity", "Initial_Velocity", "Stickiness_Index"}
      rd == read_csv_chunk(file_path, content, start_byte, num_bytes, cols_to_use)
  IN IF rd.error = "ValueError" THEN [status |-> "ValueError"]
     ELSE IF rd.error = "EmptyDataError" THEN [status |-> "None"]
     ELSE IF rd.df = <<>> THEN [status |-> "None"]
     ELSE IF Len(thr) < 2 THEN [status |-> "ValueError"]
     ELSE IF thr[1] >= thr[2] THEN [status |-> "ValueError"]
     ELSE [status |-> "ok", aggs |-> ContentAggs(rd.df, thr[1], thr[2])]

\* the worker that params.worker names, on one range
AggWorker(file_path, content, start_byte, num_bytes, p) ==
  CASE p.worker = "context"  ->
         process_context_aggregation(file_path, content, start_byte, num_bytes)
    [] p.worker = "topic"    ->
         process_topic_lifecycle(file_path, content, start_byte, num_bytes)
    [] p.worker = "platform" ->
         process_platform_lifecycle(file_path, content, start_byte, num_bytes)
    [] p.worker = "content"  ->
         process_content_aggregation(file_path, content, start_byte, num_bytes, p.thr)

\* the names of the aggregations of a worker and the metrics each holds
AggNames(w) ==
  CASE w = "context" -> {"agg_hourly", "agg_weekly", "agg_source", "agg_opp"}
    [] w = "content" -> {"sent_agg", "comp_agg"}
    [] OTHER -> {"agg"}

AggCols(w) == IF w \in {"context", "content"} THEN metric_cols ELSE {"Popularity"}

\* the sum and count of group g in the aggregation a: 0 and 0 when absent
Cell(a, g, c) == IF g \in DOMAIN a THEN a[g][c] ELSE [sum |-> 0, count |-> 0]

\* the Reducer: sums and counts added per group key over the partial results
RECURSIVE AddAggs(_, _, _, _)
AddAggs(res, i, name, cols) ==
  IF i > Len(res) THEN <<>>
  ELSE LET rest == AddAggs(res, i + 1, name, cols)
       IN IF res[i].status # "ok" THEN rest
          ELSE LET a == res[i].aggs[name]
               IN [g \in DOMAIN a \cup DOMAIN rest |->
                     [c \in cols |->
                        [sum   |-> Cell(a, g, c).sum + Cell(rest, g, c).sum,
                         count |-> Cell(a, g, c).count + Cell(rest, g, c).count]]]

ReduceAggs(res, w) ==
  IF \E i \in DOMAIN res : res[i].status = "ValueError"
  THEN [status |-> "PhaseFailed"]
  ELSE [status |-> "ok",
        aggs |-> [name \in AggNames(w) |-> AddAggs(res, 1, name, AggCols(w))]]

\* The sum and count of every metric over all the rows of the dataset that
\* belong to each group, computed on the whole dataset with no chunks and
\* with no row left out.
WholeAggs(content, p) ==
  CASE p.worker = "context" ->
         ContextAggs([j \in 1..Len(content) |->
            ContextColumns([content[j] EXCEPT !.PublishDate = to_datetime(@)])])
    [] p.worker = "topic"    -> Lifecycle(content, "Topic")
    [] p.worker = "platform" -> Lifecycle(content, "Platform")
    [] p.worker = "content"  -> ContentAggs(content, p.thr[1], p.thr[2])

\* a is b, group by group, an absent group counting as sums and counts of 0
SameAgg(a, b, cols) ==
  \A g \in DOMAIN a \cup DOMAIN b : \A c \in cols : Cell(a, g, c) = Cell(b, g, c)

MetricCells ==
  {[Popularity |-> Val(1), Initial_Velocity |-> Val(1), Stickiness_Index |-> Val(0)],
   [Popularity |-> Val(2), Initial_Velocity |-> NaN, Stickiness_Index |-> Val(1)]}

ContextRows ==
  {mc @@ k : mc \in MetricCells,
             k \in [Platform : {Val("Facebook")},
                    PublishDate : {Val("2015-11-02 09:15:00"), Val("0000-00-00")},
                    Source_Tier : {Val("Tier1"), Val("Tier2")},
                    Opportunity_Score : {Val(2), Val(5)}]}

TopicRows ==
  [Topic : {Val("economy"), Val("obama")},
   TimeSlice : {Val("TS1"), Val("TS2"), Val("1"), Val("soon")},
   Popularity : {Val(1), Val(2), NaN}]

PlatformRows ==
  [Platform : {Val("Facebook"), Val("LinkedIn")},
   TimeSlice : {Val("TS1"), Val("TS2"), Val("1"), Val("soon")},
   Popularity : {Val(1), Val(2), NaN}]

ContentRows ==
  {mc @@ k : mc \in MetricCells,
             k \in [Platform : {Val("Facebook")},
                    Title_Sentiment : {Val(-1), Val(0), Val(5)},
                    Title_Complexity : {Val(3), Val(5), Val(0)}]}

\* every split of the file f into n contiguous ranges that end at the end
\* of a line (ranges may be empty)
Splits(f, n) ==
  LET bounds == {0} \cup {j \in 1..Len(f) : f[j] = "NL"}
      cuts == {c \in [0..n -> bounds] :
                 /\ c[0] = 0
                 /\ c[n] = Len(f)
                 /\ \A i \in 1..n : c[i - 1] <= c[i]}
  IN {[i \in 1..n |-> <<c[i - 1], c[i] - c[i - 1]>>] : c \in cuts}

InitAgg ==
  /\ params \in {[worker |-> "context", thr |-> <<>>],
                 [worker |-> "topic", thr |-> <<>>],
                 [worker |-> "platform", thr |-> <<>>],
                 [worker |-> "content", thr |-> <<3, 5>>]}
  /\ rows \in SeqUpTo(CASE params.worker = "context" -> ContextRows
                        [] params.worker = "topic" -> TopicRows
                        [] params.worker = "platform" -> PlatformRows
                        [] params.worker = "content" -> ContentRows, MaxAggRows)
  /\ file = FileOf(2, Len(rows))
  /\ n_chunks \in 1..MaxAggChunks
  /\ offsets \in Splits(file, n_chunks)
  /\ pc = "work"
  /\ results = <<>>
  /\ out = <<>>

AggRange(i) ==
  /\ pc = "work"
  /\ i \in Pending
  /\ results' = results @@
       (i :> AggWorker(file, rows, offsets[i][1], offsets[i][2], params))
  /\ UNCHANGED <<file, rows, n_chunks, offsets, pc, out, params>>

AggReduce ==
  /\ pc = "work"
  /\ Pending = {}
  /\ out' = ReduceAggs(results, params.worker)
  /\ pc' = "done"
  /\ UNCHANGED <<file, rows, n_chunks, offsets, results, params>>

NextAgg == (\E i \in 1..MaxAggChunks : AggRange(i)) \/ AggReduce

SpecAgg == InitAgg /\ [][NextAgg]_vars

\* C5: for every grouped aggregation worker and every split of the rows
\* into chunks, the per-chunk sums and counts of a group added over all the
\* chunks are the sum and count of the metric over all the rows of the
\* dataset that belong to the group.
C5_TotalsAreWholeDataset ==
  pc = "done" =>
    /\ out.status = "ok"
    /\ \A name \in AggNames(params.worker) :
         SameAgg(out.aggs[name], WholeAggs(rows, params)[name],
                 AggCols(params.worker))

\* C10: in process_context_aggregation a row whose PublishDate fails to
\* parse is left out of the hourly and weekly aggregations only: the
\* Source_Tier and Opportunity_Bin aggregations of the chunk count every
\* row of the chunk.
C10_BadDateOnlyOutOfTimeAggs ==
  \A i \in DOMAIN results :
    (params.worker = "context" /\ results[i].status = "ok") =>
      LET chunk == read_csv_chunk(file, rows, offsets[i][1], offsets[i][2], {}).df
          all == [j \in 1..Len(chunk) |->
                    ContextColumns([chunk[j] EXCEPT !.PublishDate = to_datetime(@)])]
      IN results[i].aggs = ContextAggs(all)

(* ============================= SpecMerge ============================== *)
(* Pass B: plan, a merge worker on every range in any order, each writing *)
(* its shard; then the shards, under a header line, are the file of a     *)
(* second run of the same worker.  A frame is its ordered column names    *)
(* and its rows, each row the sequence of its cells in column order.      *)

SeqSet(q) == {q[i] : i \in 1..Len(q)}

IndexOf(q, x) == CHOOSE i \in 1..Len(q) : q[i] = x

\* the frame of the records df under the column names cols
FrameOf(cols, df) ==
  [columns |-> cols,
   data |-> [j \in 1..Len(df) |-> [i \in 1..Len(cols) |-> df[j][cols[i]]]]]

\* the records of a frame
RecordsOf(fr) ==
  [j \in 1..Len(fr.data) |->
     [c \in SeqSet(fr.columns) |-> fr.data[j][IndexOf(fr.columns, c)]]]

\* chunk.drop(columns=names)
DropCols(fr, names) ==
  LET Keep(c) == c \notin names
      idx == SelectSeq([i \in 1..Len(fr.columns) |-> i],
                       LAMBDA i : Keep(fr.columns[i]))
  IN [columns |-> [k \in 1..Len(idx) |-> fr.columns[idx[k]]],
      data |-> [j \in 1..Len(fr.data) |->
                  [k \in 1..Len(idx) |-> fr.data[j][idx[k]]]]]

\* the suffixes pd.merge gives a column name that both frames hold
SuffixX ==
  ("Initial_Velocity" :> "Initial_Velocity_x") @@ ("Final_Score" :> "Final_Score_x")
  @@ ("Title_Sentiment" :> "Title_Sentiment_x")
  @@ ("Sentiment_Divergence" :> "Sentiment_Divergence_x")
  @@ ("Title_Complexity" :> "Title_Complexity_x")
  @@ ("Opportunity_Score" :> "Opportunity_Score_x")

SuffixY ==
  ("Initial_Velocity" :> "Initial_Velocity_y") @@ ("Final_Score" :> "Final_Score_y")
  @@ ("Title_Sentiment" :> "Title_Sentiment_y")
  @@ ("Sentiment_Divergence" :> "Sentiment_Divergence_y")
  @@ ("Title_Complexity" :> "Title_Complexity_y")
  @@ ("Opportunity_Score" :> "Opportunity_Score_y")

\* the rows of a merge: every left row, in order, once per right row of
\* its key, or once with NaN in the right columns when keep_unmatched and
\* no right row has its key
RECURSIVE MergeRows(_, _, _, _, _)
MergeRows(left, right, on, j, keep_unmatched) ==
  IF j > Len(left.data) THEN <<>>
  ELSE
    LET lrow == left.data[j]
        KeyL == [k \in 1..Len(on) |-> lrow[IndexOf(left.columns, on[k])]]
        KeyR(r) == [k \in 1..Len(on) |-> r[IndexOf(right.columns, on[k])]]
        ridx == SelectSeq([i \in 1..Len(right.columns) |-> i],
                          LAMBDA i : right.columns[i] \notin SeqSet(on))
        Extra(r) == [k \in 1..Len(ridx) |-> r[ridx[k]]]
        hits == SelectSeq(right.data, LAMBDA r : KeyR(r) = KeyL)
        mine == IF hits = <<>>
                THEN (IF keep_unmatched
                      THEN <<lrow \o [k \in 1..Len(ridx) |-> NaN]>> ELSE <<>>)
                ELSE [h \in 1..Len(hits) |-> lrow \o Extra(hits[h])]
    IN mine \o MergeRows(left, right, on, j + 1, keep_unmatched)

\* the columns of a merge: the left columns, then the right columns that
\* are no key; a name both sides hold gets _x on the left and _y on the right
MergeCols(left, right, on) ==
  LET both == (SeqSet(left.columns) \cap SeqSet(right.columns)) \ SeqSet(on)
      rcols == SelectSeq(right.columns, LAMBDA c : c \notin SeqSet(on))
  IN [i \in 1..Len(left.columns) |->
        IF left.columns[i] \in both THEN SuffixX[left.columns[i]]
        ELSE left.columns[i]]
     \o [i \in 1..Len(rcols) |->
           IF rcols[i] \in both THEN SuffixY[rcols[i]] ELSE rcols[i]]

\* an inner join: the rows with no match are left out
merge_inner(left, right, on) ==
  [columns |-> MergeCols(left, right, on),
   data |-> MergeRows(left, right, on, 1, FALSE)]

\* pd.merge(left, right, on=on, how="left")
merge(left, right, on) ==
  [columns |-> MergeCols(left, right, on),
   data |-> MergeRows(left, right, on, 1, TRUE)]

\* fr[c] = fr[c].fillna(0.0) for every c of fill_cols that fr holds
FillNa(fr, fill_cols) ==
  [columns |-> fr.columns,
   data |-> [j \in 1..Len(fr.data) |->
               [i \in 1..Len(fr.columns) |->
                  IF fr.columns[i] \in fill_cols /\ fr.data[j][i] = NaN
                  THEN Val(0) ELSE fr.data[j][i]]]]

\* the shared part without the drop of the columns of cols_to_clean
ReadMergeNoDrop(file_path, content, start_byte, num_bytes, header_names, lookup_df, cols_to_clean, on) ==
  LET rd == read_csv_chunk(file_path, content, start_byte, num_bytes, {})
  IN IF rd.error = "ValueError" THEN [status |-> "ValueError"]
     ELSE IF rd.error = "EmptyDataError" THEN [status |-> "None"]
     ELSE IF rd.df = <<>> THEN [status |-> "None"]
     ELSE [status |-> "merged",
           frame |-> merge(FrameOf(header_names, rd.df), lookup_df, on)]

\* the part the three merge workers share: read, drop, merge
ReadDropMerge(file_path, content, start_byte, num_bytes, header_names, lookup_df, cols_to_clean, on) ==
  LET rd == read_csv_chunk(file_path, content, start_byte, num_bytes, {})
  IN IF rd.error = "ValueError" THEN [status |-> "ValueError"]
     ELSE IF rd.error = "EmptyDataError" THEN [status |-> "None"]
     ELSE IF rd.df = <<>> THEN [status |-> "None"]
     ELSE
       LET chunk == FrameOf(header_names, rd.df)
           existing == SelectSeq(cols_to_clean, LAMBDA c : c \in SeqSet(chunk.columns))
           dropped == IF existing # <<>> THEN DropCols(chunk, SeqSet(existing))
                      ELSE chunk
       IN [status |-> "merged", frame |-> merge(dropped, lookup_df, on)]

\* merged_chunk.to_csv(output_path, mode="w", index=False, header=False):
\* the shard holds the rows; columns records the names the frame had
Written(fr) == [status |-> "written", columns |-> fr.columns, data |-> fr.data]

process_phase2_merge(file_path, content, start_byte, num_bytes, header_names, metrics_df, cols_to_clean) ==
  LET r == ReadDropMerge(file_path, content, start_byte, num_bytes, header_names,
                         metrics_df, cols_to_clean, <<"IDLink", "Platform">>)
  IN IF r.status # "merged" THEN r ELSE Written(r.frame)

process_nlp_merge(file_path, content, start_byte, num_bytes, header_names, nlp_df, cols_to_clean) ==
  LET r == ReadDropMerge(file_path, content, start_byte, num_bytes, header_names,
                         nlp_df, cols_to_clean, <<"IDLink">>)
      fill_cols == {"Title_Sentiment", "Sentiment_Divergence", "Title_Complexity"}
  IN IF r.status # "merged" THEN r ELSE Written(FillNa(r.frame, fill_cols))

process_market_merge(file_path, content, start_byte, num_bytes, header_names, market_df, cols_to_clean) ==
  LET r == ReadDropMerge(file_path, content, start_byte, num_bytes, header_names,
                         market_df, cols_to_clean, <<"IDLink">>)
  IN IF r.status # "merged" THEN r
     ELSE Written(FillNa(r.frame, {"Opportunity_Score"}))

\* the worker that p.worker names, on one range
MergeWorker(file_path, content, start_byte, num_bytes, p) ==
  CASE p.worker = "phase2" ->
         process_phase2_merge(file_path, content, start_byte, num_bytes,
                              p.header, p.lookup, p.cols_to_clean)
    [] p.worker = "nlp" ->
         process_nlp_merge(file_path, content, start_byte, num_bytes,
                           p.header, p.lookup, p.cols_to_clean)
    [] p.worker = "market" ->
         process_market_merge(file_path, content, start_byte, num_bytes,
                              p.header, p.lookup, p.cols_to_clean)

\* the key columns of a worker and the columns its lookup table adds
OnOf(w) == IF w = "phase2" THEN <<"IDLink", "Platform">> ELSE <<"IDLink">>

DerivedOf(w) ==
  CASE w = "phase2" -> <<"Initial_Velocity", "Final_Score">>
    [] w = "nlp" -> <<"Title_Sentiment", "Sentiment_Divergence", "Title_Complexity">>
    [] w = "market" -> <<"Opportunity_Score">>

BaseHeader == <<"IDLink", "Platform", "Title">>

MergeRowSet ==
  [IDLink : {Val(1), Val(2)}, Platform : {Val("Facebook")}, Title : {Val("t")}]

\* the lookup tables of worker w: at most MaxLookupRows rows, any keys
Lookups(w) ==
  LET cols == OnOf(w) \o DerivedOf(w)
      Row(id) == [i \in 1..Len(cols) |->
                    IF cols[i] = "IDLink" THEN Val(id)
                    ELSE IF cols[i] = "Platform" THEN Val("Facebook")
                    ELSE Val(7)]
  IN {[columns |-> cols, data |-> [j \in 1..Len(ids) |-> Row(ids[j])]] :
        ids \in SeqUpTo({1, 2}, MaxLookupRows)}

\* the cols_to_clean the caller passes to worker w: the names of the derived
\* columns the merge is about to add, alone or with one more derived name
\* that the file does not hold
CleanLists(w) ==
  {DerivedOf(w), DerivedOf(w) \o <<"Headline_Sentiment">>}

InitMerge ==
  /\ \E w \in {"phase2", "nlp", "market"} :
       \E lk \in Lookups(w) : \E cl \in CleanLists(w) :
         params = [worker |-> w, header |-> BaseHeader, lookup |-> lk,
                   cols_to_clean |-> cl, pass |-> 1]
  /\ rows \in SeqUpTo(MergeRowSet, MaxRows)
  /\ file = FileOf(2, Len(rows))
  /\ n_chunks \in 1..MaxRowChunks
  /\ offsets = <<>>
  /\ pc = "plan"
  /\ results = <<>>
  /\ out = <<>>

MergeRange(i) ==
  /\ pc = "work"
  /\ i \in Pending
  /\ results' = results @@
       (i :> MergeWorker(file, rows, offsets[i][1], offsets[i][2], params))
  /\ UNCHANGED <<file, rows, n_chunks, offsets, pc, out, params>>

RECURSIVE ShardRows(_, _)
ShardRows(res, i) ==
  IF i > Len(res) THEN <<>>
  ELSE (IF res[i].status = "written" THEN res[i].data ELSE <<>>)
       \o ShardRows(res, i + 1)

\* The shards of the first run, concatenated in plan order under one header
\* line of their column names, become the file of the second run.
Rerun ==
  /\ pc = "work"
  /\ Pending = {}
  /\ params.pass = 1
  /\ \A i \in DOMAIN results : results[i].status \in {"written", "None"}
  /\ \E i \in DOMAIN results : results[i].status = "written"
  /\ LET w == CHOOSE i \in DOMAIN results : results[i].status = "written"
         fr == [columns |-> results[w].columns, data |-> ShardRows(results, 1)]
     IN /\ rows' = RecordsOf(fr)
        /\ file' = FileOf(2, Len(fr.data))
        /\ params' = [params EXCEPT !.pass = 2, !.header = fr.columns]
        /\ out' = [columns |-> fr.columns]
  /\ offsets' = <<>>
  /\ results' = <<>>
  /\ pc' = "plan"
  /\ UNCHANGED n_chunks

NextMerge ==
  \/ GetFileChunks
  \/ \E i \in 1..MaxRowChunks : MergeRange(i)
  \/ Rerun

SpecMerge == InitMerge /\ [][NextMerge]_vars

\* the offset of the first byte of line k of the file f
LineStart(f, k) ==
  IF k = 1 THEN 0
  ELSE CHOOSE j \in 1..Len(f) :
         f[j] = "NL" /\ CountNL(SubSeq(f, 1, j)) = k - 1

\* the indexes of the data rows whose line starts inside the range
RangeRowIdx(f, content, start_byte, num_bytes) ==
  SelectSeq([k \in 1..Len(content) |-> k],
            LAMBDA k : /\ start_byte <= LineStart(f, k + 1)
                       /\ LineStart(f, k + 1) < start_byte + num_bytes)

\* the columns of the file that the worker keeps, in order
KeptCols == SelectSeq(params.header, LAMBDA c : c \notin SeqSet(params.cols_to_clean))

\* the cells of the kept columns of data row k of the file
KeptCells(k) == [i \in 1..Len(KeptCols) |-> rows[k][KeptCols[i]]]

\* the lookup table has at most one row per key
UniqueLookup ==
  LET lk == params.lookup
      Key(r) == [k \in 1..Len(OnOf(params.worker)) |->
                   r[IndexOf(lk.columns, OnOf(params.worker)[k])]]
  IN \A a, b \in 1..Len(lk.data) : Key(lk.data[a]) = Key(lk.data[b]) => a = b

\* the shard of range i holds one row per data row of the range, in order:
\* the cells of the kept columns first, unchanged
ShardMatches(i) ==
  LET idx == RangeRowIdx(file, rows, offsets[i][1], offsets[i][2])
  IN /\ Len(results[i].data) = Len(idx)
     /\ \A j \in 1..Len(idx) :
          SubSeq(results[i].data[j], 1, Len(KeptCols)) = KeptCells(idx[j])

\* C6: the second run of a merge worker, on the output of the first run and
\* with the same lookup table, gives the columns of the first run, in the
\* same order: no derived column twice, none renamed.
C6_RerunSameColumns ==
  params.pass = 2 =>
    \A i \in DOMAIN results :
      results[i].status = "written" =>
        /\ results[i].columns = out.columns
        /\ \A a, b \in 1..Len(results[i].columns) :
             results[i].columns[a] = results[i].columns[b] => a = b

\* a second run that wrote a shard of the base and the derived columns, with
\* a lookup table that holds a row
C6_Witness ==
  /\ params.pass = 2
  /\ params.lookup.data # <<>>
  /\ \E i \in DOMAIN results :
       /\ results[i].status = "written"
       /\ Len(results[i].columns) > Len(BaseHeader)

\* C8: in every merge worker a row whose key is absent from the lookup
\* table is written with a default, never NaN, in each joined column: 0 for
\* Opportunity_Score and the sentiment/complexity columns, a sentinel for
\* Initial_Velocity and Final_Score.
C8_JoinMissHasDefault ==
  \A i \in DOMAIN results :
    results[i].status = "written" =>
      LET lk == params.lookup
          on == OnOf(params.worker)
          nd == Len(DerivedOf(params.worker))
          KeyOut(r) == [k \in 1..Len(on) |-> r[IndexOf(results[i].columns, on[k])]]
          KeyLk(r) == [k \in 1..Len(on) |-> r[IndexOf(lk.columns, on[k])]]
          Miss(r) == \A h \in 1..Len(lk.data) : KeyLk(lk.data[h]) # KeyOut(r)
      IN \A j \in 1..Len(results[i].data) :
           Miss(results[i].data[j]) =>
             \A c \in (Len(results[i].columns) - nd + 1)..Len(results[i].columns) :
               /\ results[i].data[j][c] # NaN
               /\ params.worker # "phase2" => results[i].data[j][c] = Val(0)

\* C9 as stated: for every range of the plan the merge worker writes a
\* shard holding exactly one output row per input row of the range, in the
\* input order, so that the shards together hold every data row exactly
\* once (the lookup table having at most one row per key).
C9_EveryRangeWritesItsRows ==
  UniqueLookup =>
    /\ \A i \in DOMAIN results : results[i].status = "written" /\ ShardMatches(i)
    /\ (pc = "work" /\ Pending = {}) =>
         [j \in 1..Len(ShardRows(results, 1)) |->
            SubSeq(ShardRows(results, 1)[j], 1, Len(KeptCols))]
         = [k \in 1..Len(rows) |-> KeptCells(k)]

\* C9 as amended: a range that holds a data row gets a shard with exactly
\* one output row per input row, in the input order; a range that holds no
\* data row gets no shard; the shards written hold, together and in plan
\* order, every data row exactly once (the lookup table having at most one
\* row per key).
C9_RowRangesWriteTheirRows ==
  UniqueLookup =>
    /\ \A i \in DOMAIN results :
         IF RangeRowIdx(file, rows, offsets[i][1], offsets[i][2]) # <<>>
         THEN results[i].status = "written" /\ ShardMatches(i)
         ELSE results[i].status # "written"
    /\ (pc = "work" /\ Pending = {}) =>
         [j \in 1..Len(ShardRows(results, 1)) |->
            SubSeq(ShardRows(results, 1)[j], 1, Len(KeptCols))]
         = [k \in 1..Len(rows) |-> KeptCells(k)]

\* every range done: one shard of two rows or more, with a row whose key
\* the lookup table lacks, and one range with no data row
C9_Witness ==
  /\ UniqueLookup
  /\ pc = "work" /\ Pending = {} /\ Len(offsets) >= 2
  /\ Len(params.lookup.data) = 1
  /\ {rows[k].IDLink : k \in 1..Len(rows)} = {Val(1), Val(2)}
  /\ \E i \in DOMAIN results :
       results[i].status = "written" /\ Len(results[i].data) >= 2
  /\ \E i \in DOMAIN results : results[i].status = "None"

(* ============================= SpecSample ============================= *)
(* The two-pass quantile-then-bin aggregation: the plan, then              *)
(* process_content_sampling on every range, the thresholds from the        *)
(* concatenated samples, process_content_aggregation on every range with   *)
(* these thresholds, and the reduction of the sums and counts.             *)

\* the sample fraction frac=0.01 is 1 / SampleFracDen
SampleFracDen == 100

\* the number of rows DataFrame.sample(frac=0.01) draws from a frame of len
\* rows: round(frac * len), Python's round (a half goes to the even integer)
sample_size(len) ==
  LET q  == len \div SampleFracDen
      r2 == 2 * (len % SampleFracDen)
  IN IF r2 > SampleFracDen THEN q + 1
     ELSE IF r2 < SampleFracDen THEN q
     ELSE IF q % 2 = 0 THEN q ELSE q + 1

\* random_state=42 fixes, for every frame length, the positions of the rows
\* drawn.  The permutation of numpy's generator is not reproduced: perm
\* names one of the position rules the model tries, the same in every call
\* of a run.
Perms == {"head", "tail"}

sample(df, perm) ==
  LET k == sample_size(Len(df))
  IN IF perm = "head" THEN SubSeq(df, 1, k)
     ELSE SubSeq(df, Len(df) - k + 1, Len(df))

process_content_sampling(file_path, content, start_byte, num_bytes, perm) ==
  LET rd == read_csv_chunk(file_path, content, start_byte, num_bytes,
                           {"Title_Complexity"})
  IN IF rd.error = "ValueError" THEN [status |-> "ValueError"]
     ELSE IF rd.error = "EmptyDataError" THEN [status |-> "None"]
     ELSE IF rd.df = <<>> THEN [status |-> "None"]
     ELSE LET valid_data == SelectSeq(rd.df, LAMBDA r :
                               r.Title_Complexity # NaN /\ r.Title_Complexity[1] > 0)
          IN IF valid_data = <<>> THEN [status |-> "None"]
             ELSE [status |-> "ok", sample |-> sample(valid_data, perm)]

\* the Title_Complexity values of the samples, concatenated in plan order
RECURSIVE ConcatSamples(_, _)
ConcatSamples(res, i) ==
  IF i > Len(res) THEN <<>>
  ELSE (IF res[i].status = "ok"
        THEN [j \in 1..Len(res[i].sample) |-> res[i].sample[j].Title_Complexity[1]]
        ELSE <<>>) \o ConcatSamples(res, i + 1)

\* the k-th smallest value of the non-empty sequence s
OrderStat(s, k) ==
  CHOOSE v \in {s[j] : j \in 1..Len(s)} :
    /\ Cardinality({j \in 1..Len(s) : s[j] < v}) < k
    /\ k <= Cardinality({j \in 1..Len(s) : s[j] <= v})

\* the probabilities, in percent, of the two quantile thresholds
q_low == 33

q_high == 66

\* Series.quantile(pct / 100) with linear interpolation
quantile(s, pct) ==
  LET h  == pct * (Len(s) - 1)
      lo == h \div 100
      r  == h % 100
      a  == OrderStat(s, lo + 1)
  IN IF r = 0 THEN a ELSE a + (r * (OrderStat(s, lo + 2) - a)) \div 100

\* the Reducer of pass 1: a worker that raised fails the phase; the
\* thresholds are NaN (<<>>) when no row was sampled
Thresholds(res) ==
  IF \E i \in DOMAIN res : res[i].status = "ValueError"
  THEN [status |-> "PhaseFailed"]
  ELSE LET s == ConcatSamples(res, 1)
       IN [status |-> "ok",
           thr |-> IF s = <<>> THEN <<>>
                   ELSE <<quantile(s, q_low), quantile(s, q_high)>>]

\* both passes and both reductions over the ranges of plan
TwoPass(file_path, content, plan, perm) ==
  LET t == Thresholds([i \in 1..Len(plan) |->
             process_content_sampling(file_path, content, plan[i][1], plan[i][2], perm)])
  IN IF t.status = "PhaseFailed" THEN [status |-> "PhaseFailed"]
     ELSE ReduceAggs([i \in 1..Len(plan) |->
            process_content_aggregation(file_path, content, plan[i][1], plan[i][2],
                                        t.thr)], "content")

\* a dataset of k rows on two platforms; Title_Complexity, in hundredths,
\* rises with the row ("rising"), or rises over the first three quarters
\* of the rows and is 0.0 on the last quarter ("tailzeros")
SampleRows(k, kind) ==
  [j \in 1..k |->
     [Platform |-> IF j % 2 = 0 THEN Val("Facebook") ELSE Val("LinkedIn"),
      Title_Sentiment |-> Val(0),
      Title_Complexity |-> IF kind = "tailzeros" /\ 4 * j > 3 * k THEN Val(0)
                           ELSE Val(100 * j),
      Popularity |-> Val(1 + (j % 2)),
      Initial_Velocity |-> Val(1),
      Stickiness_Index |-> Val(0)]]

InitSample ==
  /\ params \in [worker : {"content"}, perm : Perms, thr : {<<>>}]
  /\ rows \in {SampleRows(0, "rising"),
               SampleRows(MaxSampleRows \div 2, "rising"),
               SampleRows((3 * MaxSampleRows) \div 5, "rising"),
               SampleRows(MaxSampleRows, "tailzeros")}
  /\ file = FileOf(2, Len(rows))
  /\ n_chunks \in 1..MaxSampleChunks
  /\ offsets = <<>>
  /\ pc = "plan"
  /\ results = <<>>
  /\ out = <<>>

SampleRange(i) ==
  /\ pc = "work"
  /\ i \in Pending
  /\ results' = results @@
       (i :> process_content_sampling(file, rows, offsets[i][1], offsets[i][2],
                                      params.perm))
  /\ UNCHANGED <<file, rows, n_chunks, offsets, pc, out, params>>

SampleReduce ==
  /\ pc = "work"
  /\ Pending = {}
  /\ LET t == Thresholds(results)
     IN IF t.status = "PhaseFailed"
        THEN /\ out' = [status |-> "PhaseFailed"]
             /\ pc' = "done"
             /\ UNCHANGED <<results, params>>
        ELSE /\ params' = [params EXCEPT !.thr = t.thr]
             /\ results' = <<>>
             /\ pc' = "bin"
             /\ out' = out
  /\ UNCHANGED <<file, rows, n_chunks, offsets>>

BinRange(i) ==
  /\ pc = "bin"
  /\ i \in Pending
  /\ results' = results @@
       (i :> process_content_aggregation(file, rows, offsets[i][1], offsets[i][2],
                                         params.thr))
  /\ UNCHANGED <<file, rows, n_chunks, offsets, pc, out, params>>

BinReduce ==
  /\ pc = "bin"
  /\ Pending = {}
  /\ out' = ReduceAggs(results, "content")
  /\ pc' = "done"
  /\ UNCHANGED <<file, rows, n_chunks, offsets, results, params>>

NextSample ==
  \/ GetFileChunks
  \/ \E i \in 1..MaxSampleChunks : SampleRange(i)
  \/ SampleReduce
  \/ \E i \in 1..MaxSampleChunks : BinRange(i)
  \/ BinReduce

SpecSample == InitSample /\ [][NextSample]_vars

\* C7: for the same dataset, seed and sample fraction, the two-pass
\* aggregation gives for every (Platform, Complexity_Bin) bucket the sum and
\* the count that it gives with 1 chunk, whatever the chunk count is.
C7_SameTotalsWhateverChunkCount ==
  pc = "done" =>
    LET one == TwoPass(file, rows, get_file_chunks(file, 1), params.perm)
    IN /\ out.status = one.status
       /\ out.status = "ok" =>
            SameAgg(out.aggs.comp_agg, one.aggs.comp_agg, metric_cols)

====
